---- MODULE Spec2Model ----
(***************************************************************************)
(* State-machine model of src/src/App.jsx: the contact form (Contact),     *)
(* the project gallery (Projects, FilterPills), the theme hook (useTheme,  *)
(* App's mount effect) and the scroll-reactive navigation bar (Navbar).    *)
(*                                                                         *)
(* Strings whose characters matter (form fields) are sequences of          *)
(* one-character strings.  The four components own disjoint state, so each *)
(* has a specification of its own in which the other components rest.      *)
(***************************************************************************)
EXTENDS Integers, Sequences, FiniteSets

VARIABLES
    \* ---- Contact (App.jsx 264-309)
    status,         \* useState('idle'): "idle" | "loading" | "success" | "error"
    form,           \* useState({name, email, message})
    inflight,       \* POST /api/contact requests sent and not yet settled
    sent,           \* history: number of requests sent so far
    settled,        \* history: number of requests settled so far
    edited,         \* history: a field was edited since the last settle
    lastOp,         \* history: the last contact operation that ran
    lastResponse,   \* history: the response of the last settled request
    \* ---- Projects (App.jsx 165-209)
    projects,       \* useState([]): the fetched body (a list, or NonList)
    active,         \* useState('All'): the selected pill's label
    loading,        \* useState(true)
    error,          \* useState('')
    crashed,        \* a render threw: React unmounted the page
    fetched,        \* "pending", or the outcome of GET /api/projects
    activePill,     \* history: index of the pill last selected (1 = 'All' pseudo-tag)
    \* ---- Theme (App.jsx 20-33, 353-355)
    stored,         \* localStorage item 'theme' (Null when absent)
    ambientDark,    \* matchMedia('(prefers-color-scheme: dark)').matches
    theme,          \* useState(...) of useTheme
    rootDark,       \* document.documentElement.classList contains 'dark'
    phase,          \* "rendered": first render done; "mounted": mount effects ran
    loadStored,     \* history: localStorage 'theme' as read by this page load
    loadAmbient,    \* history: ambient preference as read by this page load
    loads,          \* history: number of reloads
    toggles,        \* history: number of toggles since this page load
    \* ---- Navbar (App.jsx 47-58)
    scrollY,        \* window.scrollY
    last,           \* let last (closure variable of the scroll effect)
    hidden,         \* useState(false)
    prevSample,     \* history: the sample before the most recent one
    samples         \* history: number of scroll samples taken (capped at 2)

contactVars == <<status, form, inflight, sent, settled, edited, lastOp, lastResponse>>
projVars == <<projects, active, loading, error, crashed, fetched, activePill>>
themeVars == <<stored, ambientDark, theme, rootDark, phase, loadStored, loadAmbient, loads, toggles>>
navVars == <<scrollY, last, hidden, prevSample, samples>>
vars == <<contactVars, projVars, themeVars, navVars>>

\* Each component's operations leave the other components' state alone.
ContactOnly == UNCHANGED <<projVars, themeVars, navVars>>
ProjectsOnly == UNCHANGED <<contactVars, themeVars, navVars>>
ThemeOnly == UNCHANGED <<contactVars, projVars, navVars>>
NavbarOnly == UNCHANGED <<contactVars, projVars, themeVars>>

\* ------------------------------------------------------------------------
\* Bounds
\* ------------------------------------------------------------------------
MaxRequests == 3
MaxProjects == 2
MaxLoads == 2
MaxToggles == 3
MaxScroll == 67

\* ========================================================================
\* Contact
\* ========================================================================

\* form.message.length > 5
MinMessageLen == 5

Msg(n) == [i \in 1..n |-> "m"]

Names == { <<>>, <<"A", "n", "n">> }
Emails == { <<>>, <<"a", "@">>, <<"@", "a">>, <<"a", "@", "b">>, <<"@", "@", "@">>,
            <<"n", "o", "t">> }
Messages == { Msg(0), Msg(MinMessageLen), Msg(MinMessageLen + 1) }

\* Line terminators, which the regular expression's '.' does not match.
LineTerminators == { "\n", "\r" }

\* /.+@.+/.test(s): some '@' with a non-terminator character right before it
\* and right after it.
EmailShape(s) ==
    \E i \in 1..Len(s) :
        /\ s[i] = "@"
        /\ i > 1 /\ s[i - 1] \notin LineTerminators
        /\ i < Len(s) /\ s[i + 1] \notin LineTerminators

\* Variant of Valid: the message bound taken as >= in place of >.
ValidLenientMessage(f) ==
    f.name # <<>> /\ EmailShape(f.email) /\ Len(f.message) >= MinMessageLen

\* const valid = form.name && /.+@.+/.test(form.email) && form.message.length > 5
Valid(f) ==
    f.name # <<>> /\ EmailShape(f.email) /\ Len(f.message) > MinMessageLen

\* Variant of Disabled: the button stays enabled while loading.
DisabledOnlyWhenInvalid(f, s) == ~Valid(f)

\* Variant of Disabled: the button is enabled only in the idle status.
DisabledOnceSubmitted(f, s) == ~Valid(f) \/ s # "idle"

\* <button disabled={!valid || status==='loading'}>
Disabled(f, s) == ~Valid(f) \/ s = "loading"

\* Responses of POST /api/contact: an HTTP status, or fetch throwing.
HttpCodes == { 200, 204, 404, 500 }
Responses == [kind : {"http"}, code : HttpCodes] \cup { [kind |-> "throw", code |-> 0] }

\* res.ok of the Fetch API: the status is in 200..299.
ResOk(r) == r.kind = "http" /\ r.code >= 200 /\ r.code <= 299

\* Variant of StatusAfter: res.ok is not looked at.
StatusAfterIgnoringOk(r) == IF r.kind = "http" THEN "success" ELSE "error"

\* if (res.ok) setStatus('success'); else setStatus('error'); catch: setStatus('error')
StatusAfter(r) == IF r.kind = "throw" THEN "error"
                  ELSE IF ResOk(r) THEN "success" ELSE "error"

\* body: JSON.stringify(form)
Payload(f) == f

ContactInit ==
    /\ status = "idle"
    /\ form = [name |-> <<>>, email |-> <<>>, message |-> <<>>]
    /\ inflight = {}
    /\ sent = 0
    /\ settled = 0
    /\ edited = FALSE
    /\ lastOp = "none"
    /\ lastResponse = [kind |-> "none", code |-> 0]

\* onChange of the three inputs: setForm(f => ({...f, field: e.target.value}))
EditField(field, v) ==
    /\ form[field] # v
    /\ form' = [form EXCEPT ![field] = v]
    /\ edited' = TRUE
    /\ lastOp' = "edit"
    /\ UNCHANGED <<status, inflight, sent, settled, lastResponse>>
    /\ ContactOnly

EditName == \E v \in Names : EditField("name", v)
EditEmail == \E v \in Emails : EditField("email", v)
EditMessage == \E v \in Messages : EditField("message", v)

\* const submit = async (e) => {...} up to the await: the guard, then
\* setStatus('loading') and the POST.
submit ==
    /\ lastOp' = "submit"
    /\ IF ~Valid(form)
       THEN UNCHANGED <<status, form, inflight, sent, settled, edited, lastResponse>>
       ELSE /\ sent < MaxRequests
            /\ status' = "loading"
            /\ sent' = sent + 1
            /\ inflight' = inflight \cup { [id |-> sent + 1, body |-> Payload(form)] }
            /\ UNCHANGED <<form, settled, edited, lastResponse>>
    /\ ContactOnly

\* The submit control: the form's button, which dispatches submit only
\* while it is not disabled.
ClickSubmit ==
    /\ ~Disabled(form, status)
    /\ submit

\* The continuation of submit after the await, for one outstanding request.
Settle ==
    \E req \in inflight, r \in Responses :
        /\ inflight' = inflight \ {req}
        /\ status' = StatusAfter(r)
        /\ settled' = settled + 1
        /\ edited' = FALSE
        /\ lastOp' = "settle"
        /\ lastResponse' = r
        /\ UNCHANGED <<form, sent>>
        /\ ContactOnly

\* ========================================================================
\* Projects
\* ========================================================================

\* Tag collections a project may carry: empty, single, several, with a
\* repeated tag, and with the tag "All", which is also the pseudo-tag's label.
TagSeqs == { <<>>, <<"ml">>, <<"web">>, <<"All">>, <<"ml", "web">>, <<"web", "ml", "web">>,
             <<"All", "ml">> }

\* A project's tags field: a list, or missing (p.tags undefined).
TagFields == { [hasTags |-> TRUE, tags |-> t] : t \in TagSeqs }
                 \cup { [hasTags |-> FALSE, tags |-> <<>>] }

\* Ordered project collections; the slug tells the records apart.
ProjectLists ==
    UNION { { [i \in 1..n |-> [slug |-> i, hasTags |-> f[i].hasTags, tags |-> f[i].tags]]
              : f \in [1..n -> TagFields] } : n \in 0..MaxProjects }

\* A parsed JSON body: a list of projects, or something that is no list
\* (for instance the object {"detail": "Not Found"}).
ListBody(l) == [isList |-> TRUE, items |-> l]
NonList == [isList |-> FALSE, items |-> <<>>]

\* Outcomes of GET /api/projects: fetch rejects, res.json() rejects, or a
\* parsed body arrives with res.ok true or false.
FetchOutcomes ==
    { [kind |-> "transport", ok |-> FALSE, body |-> NonList] }
      \cup { [kind |-> "unparsable", ok |-> b, body |-> NonList] : b \in BOOLEAN }
      \cup { [kind |-> "json", ok |-> b, body |-> d]
             : b \in BOOLEAN, d \in { ListBody(l) : l \in ProjectLists } \cup { NonList } }

Pending == [kind |-> "pending", ok |-> FALSE, body |-> NonList]

ErrorMessage == "Could not load projects"

RECURSIVE FlatMapTags(_)
\* projects.flatMap(p => p.tags || [])
FlatMapTags(ps) ==
    IF ps = <<>> THEN <<>>
    ELSE (IF Head(ps).hasTags THEN Head(ps).tags ELSE <<>>) \o FlatMapTags(Tail(ps))

RECURSIVE Distinct(_, _)
\* Array.from(new Set(xs)): first occurrences, in order.
Distinct(xs, seen) ==
    IF xs = <<>> THEN <<>>
    ELSE IF Head(xs) \in seen THEN Distinct(Tail(xs), seen)
         ELSE <<Head(xs)>> \o Distinct(Tail(xs), seen \cup {Head(xs)})

\* const tags = useMemo(() => Array.from(new Set(projects.flatMap(...))))
Tags(ps) == Distinct(FlatMapTags(ps), {})

\* FilterPills: const all = ['All', ...tags]
Pills(ps) == <<"All">> \o Tags(ps)

\* p.tags?.includes(t)
Includes(p, t) == p.hasTags /\ \E k \in 1..Len(p.tags) : p.tags[k] = t

\* const filtered = active === 'All' ? projects : projects.filter(p => p.tags?.includes(active))
Filtered(ps, a) ==
    IF a = "All" THEN ps ELSE SelectSeq(ps, LAMBDA p : Includes(p, a))

\* Rendering Projects calls projects.flatMap and projects.filter, which throw
\* a TypeError when projects is no array; no error boundary catches it.
RenderThrows(body) == ~body.isList

\* What the section shows (App.jsx 197-205).
View ==
    IF crashed THEN "crashed"
    ELSE IF loading THEN "loading"
    ELSE IF error # "" THEN "error"
    ELSE "cards"

\* The cards on screen: filtered.map(p => <ProjectCard .../>)
Cards == IF View = "cards" THEN Filtered(projects.items, active) ELSE <<>>

ProjectsInit ==
    /\ projects = ListBody(<<>>)
    /\ active = "All"
    /\ loading = TRUE
    /\ error = ""
    /\ crashed = FALSE
    /\ fetched = Pending
    /\ activePill = 1

\* const load = async () => { try {...} catch {...} finally {...} } after the
\* awaits, followed by the re-render its state updates cause.
load ==
    /\ fetched = Pending
    /\ \E o \in FetchOutcomes :
        /\ fetched' = o
        /\ IF o.kind = "json"
           THEN /\ projects' = o.body
                /\ error' = error
           ELSE /\ projects' = projects
                /\ error' = ErrorMessage
        /\ loading' = FALSE
        /\ crashed' = RenderThrows(projects')
    /\ UNCHANGED <<active, activePill>>
    /\ ProjectsOnly

\* onClick of the i-th pill: onChange(t), that is setActive(t).
SelectPill ==
    /\ ~crashed
    /\ \E i \in 1..Len(Pills(projects.items)) :
        /\ active' = Pills(projects.items)[i]
        /\ activePill' = i
    /\ UNCHANGED <<projects, loading, error, crashed, fetched>>
    /\ ProjectsOnly

\* ========================================================================
\* Theme
\* ========================================================================

\* localStorage.getItem returns null for an absent key.
Null == "<null>"

Themes == { "light", "dark" }

\* JavaScript truthiness of getItem's result: null and '' are falsy.
Truthy(s) == s # Null /\ s # ""

\* Variant of InitialTheme: the ambient preference is looked at first.
InitialThemeAmbientFirst(st, amb) ==
    IF amb THEN "dark" ELSE IF Truthy(st) THEN st ELSE "light"

\* useState(() => { const stored = localStorage.getItem('theme');
\*   if (stored) return stored; return matchMedia(...).matches ? 'dark' : 'light' })
InitialTheme(st, amb) ==
    IF Truthy(st) THEN st ELSE IF amb THEN "dark" ELSE "light"

\* Variant of ThemeEffect: the class is added for dark and never removed.
ThemeEffectAddOnly(t, root) ==
    [rootDark |-> (t = "dark") \/ root, stored |-> t]

\* useTheme's effect: add or remove the 'dark' class, then setItem('theme', theme).
ThemeEffect(t, root) ==
    [rootDark |-> (t = "dark"), stored |-> t]

\* App's mount effect: document.documentElement.classList.add('dark')
AppMountEffect(root) == TRUE

\* Variant of MountEffects: App's mount effect runs before useTheme's.
MountEffectsAppFirst(t, root) == ThemeEffect(t, AppMountEffect(root))

\* The effects of App's first commit, in declaration order: useTheme's
\* effect (line 26), then App's mount effect (line 353).
MountEffects(t, root) ==
    [rootDark |-> AppMountEffect(ThemeEffect(t, root).rootDark),
     stored |-> ThemeEffect(t, root).stored]

\* onClick of the toggle button: setTheme(theme === 'dark' ? 'light' : 'dark')
Toggled(t) == IF t = "dark" THEN "light" ELSE "dark"

\* The first render of a page load: a fresh document, theme initialised.
Render(st, amb) ==
    /\ theme' = InitialTheme(st, amb)
    /\ rootDark' = FALSE
    /\ phase' = "rendered"
    /\ loadStored' = st
    /\ loadAmbient' = amb
    /\ toggles' = 0

ThemeInit ==
    /\ stored \in { Null } \cup Themes
    /\ ambientDark \in BOOLEAN
    /\ theme = InitialTheme(stored, ambientDark)
    /\ rootDark = FALSE
    /\ phase = "rendered"
    /\ loadStored = stored
    /\ loadAmbient = ambientDark
    /\ loads = 0
    /\ toggles = 0

\* The user reloads the page: local storage survives, the rest starts over.
Reload ==
    /\ loads < MaxLoads
    /\ loads' = loads + 1
    /\ Render(stored, ambientDark)
    /\ UNCHANGED <<stored, ambientDark>>
    /\ ThemeOnly

\* The passive effects of the first commit run.
Mount ==
    /\ phase = "rendered"
    /\ phase' = "mounted"
    /\ rootDark' = MountEffects(theme, rootDark).rootDark
    /\ stored' = MountEffects(theme, rootDark).stored
    /\ UNCHANGED <<ambientDark, theme, loadStored, loadAmbient, loads, toggles>>
    /\ ThemeOnly

\* A click on the toggle button, the re-render and useTheme's effect for
\* the new theme.
Toggle ==
    /\ phase = "mounted"
    /\ toggles < MaxToggles
    /\ toggles' = toggles + 1
    /\ theme' = Toggled(theme)
    /\ rootDark' = ThemeEffect(theme', rootDark).rootDark
    /\ stored' = ThemeEffect(theme', rootDark).stored
    /\ UNCHANGED <<ambientDark, phase, loadStored, loadAmbient, loads>>
    /\ ThemeOnly

\* The platform's color-scheme preference changes.
AmbientChange ==
    /\ ambientDark' = ~ambientDark
    /\ UNCHANGED <<stored, theme, rootDark, phase, loadStored, loadAmbient, loads, toggles>>
    /\ ThemeOnly

\* ========================================================================
\* Navbar
\* ========================================================================

\* setHidden(curr > last && curr > 64)
HideThreshold == 64

\* Variant of OnScroll: last is not updated.
OnScrollKeepLast(curr, l) ==
    [hidden |-> curr > l /\ curr > HideThreshold, last |-> l]

\* const onScroll = () => { const curr = window.scrollY;
\*   setHidden(curr > last && curr > 64); last = curr }
OnScroll(curr, l) ==
    [hidden |-> curr > l /\ curr > HideThreshold, last |-> curr]

\* useState(false); the effect's let last = window.scrollY
NavInit ==
    /\ scrollY \in 0..MaxScroll
    /\ last = scrollY
    /\ hidden = FALSE
    /\ prevSample = scrollY
    /\ samples = 0

\* The viewport scrolls to y and the scroll listener runs.
Scroll ==
    \E y \in 0..MaxScroll :
        /\ scrollY' = y
        /\ hidden' = OnScroll(y, last).hidden
        /\ last' = OnScroll(y, last).last
        /\ prevSample' = scrollY
        /\ samples' = IF samples < 2 THEN samples + 1 ELSE samples
        /\ NavbarOnly

\* ========================================================================
\* Specifications: one per component, the other components at rest
\* ========================================================================

ThemeAtRest == ThemeInit /\ stored = Null /\ ambientDark = FALSE
NavAtRest == NavInit /\ scrollY = 0

InitContact == ContactInit /\ ProjectsInit /\ ThemeAtRest /\ NavAtRest
InitProjects == ContactInit /\ ProjectsInit /\ ThemeAtRest /\ NavAtRest
InitTheme == ContactInit /\ ProjectsInit /\ ThemeInit /\ NavAtRest
InitNavbar == ContactInit /\ ProjectsInit /\ ThemeAtRest /\ NavInit

\* The contact form with the submit handler dispatched by any submit event.
NextContact ==
    \/ EditName
    \/ EditEmail
    \/ EditMessage
    \/ submit
    \/ Settle

SpecContact == InitContact /\ [][NextContact]_vars

\* The contact form driven through its submit control only.
NextContactControl ==
    \/ EditName
    \/ EditEmail
    \/ EditMessage
    \/ ClickSubmit
    \/ Settle

SpecContactControl == InitContact /\ [][NextContactControl]_vars

NextProjects ==
    \/ load
    \/ SelectPill

SpecProjects == InitProjects /\ [][NextProjects]_vars

NextTheme ==
    \/ Reload
    \/ Mount
    \/ Toggle
    \/ AmbientChange

SpecTheme == InitTheme /\ [][NextTheme]_vars

NextNavbar == Scroll

SpecNavbar == InitNavbar /\ [][NextNavbar]_vars

\* ========================================================================
\* Claims
\* ========================================================================

\* The guard as the claim words it: the name is empty, or the email has no
\* '@' with at least one character on each side, or the message has 5 or
\* fewer characters.
GuardFails(f) ==
    \/ f.name = <<>>
    \/ ~ \E i \in 1..Len(f.email) : f.email[i] = "@" /\ i > 1 /\ i < Len(f.email)
    \/ Len(f.message) <= 5

\* C1: whatever the status and the form contents, a submit attempt whose
\* guard fails changes neither the status nor the form fields and sends no
\* request.
C1_SubmitGuardNoOp ==
    [][(lastOp' = "submit" /\ GuardFails(form))
         => UNCHANGED <<status, form, inflight, sent>>]_vars

\* C1 witness: a submit attempt with a failing guard ran after an earlier
\* submission had ended.
C1_Witness ==
    /\ lastOp = "submit"
    /\ GuardFails(form)
    /\ status \in {"success", "error"}
    /\ settled > 0

\* The status a response must lead to, as the claim words it.
ExpectedStatus(r) ==
    IF r.kind = "http" /\ r.code \in 200..299 THEN "success" ELSE "error"

\* C2: a submit with a passing guard sends exactly one request carrying the
\* form as it is and sets the status to loading; a settling request sets the
\* status to success exactly for a success HTTP status and to error
\* otherwise; loading is left only by a settling request, towards success or
\* error; the status never returns to idle.
C2_SubmitSendsAndSettles ==
    [][/\ (lastOp' = "submit" /\ Valid(form))
            => /\ sent' = sent + 1
               /\ inflight' = inflight \cup { [id |-> sent', body |-> form] }
               /\ Cardinality(inflight') = Cardinality(inflight) + 1
               /\ status' = "loading"
               /\ form' = form
       /\ (settled' = settled + 1) => status' = ExpectedStatus(lastResponse')
       /\ (status = "loading" /\ status' # "loading")
            => settled' = settled + 1 /\ status' \in {"success", "error"}
       /\ (status' = "idle") => status = "idle"]_vars

\* C2 witness: a request settled with a non-success HTTP status and the
\* status is error.
C2_Witness ==
    /\ settled > 0
    /\ inflight = {}
    /\ lastResponse.kind = "http"
    /\ lastResponse.code = 500
    /\ status = "error"

\* C3, as stated: through the submit control no second request is sent
\* unless a field was edited after the previous attempt settled, and a
\* submit or a response never changes the form fields.
C3_ResubmitOnlyAfterEdit ==
    [][/\ (sent' = sent + 1 /\ settled > 0) => edited
       /\ (lastOp' \in {"submit", "settle"}) => form' = form]_vars

\* C3, amended: through the submit control a further request is sent only
\* once the previous one has settled; from then on the control accepts a
\* resubmission whenever the guard passes, whether or not a field was
\* edited; and a submit or a response never changes the form fields.
C3_ResubmitKeepsForm ==
    /\ [](((status \in {"success", "error"}) /\ Valid(form) /\ sent < MaxRequests)
            => ENABLED ClickSubmit)
    /\ [][/\ (sent' = sent + 1) => settled = sent
          /\ (lastOp' \in {"submit", "settle"}) => form' = form]_vars

\* C3 witness: a second request is outstanding that was sent after the first
\* one settled, with no edit in between.
C3_Witness ==
    /\ sent = 2
    /\ settled = 1
    /\ ~edited
    /\ status = "loading"
    /\ lastOp = "submit"

\* The projects a pill stands for, as the claim words it: everything for the
\* 'All' pseudo-tag (the first pill), else the projects whose tag collection
\* contains the pill's tag.
ExpectedShown(ps, i) ==
    IF i = 1 THEN ps
    ELSE SelectSeq(ps, LAMBDA p : p.hasTags /\ \E k \in 1..Len(p.tags) :
                                                  p.tags[k] = Pills(ps)[i])

\* C4: whichever pill is selected, the gallery shows the original collection
\* for the 'All' pseudo-tag and, for a derived tag, exactly the projects
\* whose tag collection contains it, in the original order.
C4_ProjectFilterExact ==
    (~crashed /\ projects.isList)
        => /\ activePill \in 1..Len(Pills(projects.items))
           /\ Filtered(projects.items, active) = ExpectedShown(projects.items, activePill)

\* The outcomes the claim lists, and those among them that are failures.
ListedOutcome(o) ==
    \/ o.kind \in {"transport", "unparsable"}
    \/ o.kind = "json" /\ o.body.isList
    \/ o.kind = "json" /\ ~o.ok /\ ~o.body.isList
FailedOutcome(o) ==
    \/ o.kind \in {"transport", "unparsable"}
    \/ o.kind = "json" /\ ~o.ok /\ ~o.body.isList

\* C5: once the projects request has settled with one of the listed
\* outcomes, the section shows the error message or the cards and the page
\* has not crashed; after a failed outcome it shows the error message
\* 'Could not load projects' and no card.
C5_ProjectsFetchDegrades ==
    (fetched # Pending /\ ListedOutcome(fetched))
        => /\ View \in {"error", "cards"}
           /\ FailedOutcome(fetched)
                => View = "error" /\ error = "Could not load projects" /\ Cards = <<>>

\* The theme a page load must start with, as the claim words it.
ExpectedInitial(st, amb) ==
    IF st # Null THEN st ELSE IF amb THEN "dark" ELSE "light"

\* C6: a page load initialises the theme to the stored value when the key
\* holds one, whatever the ambient preference, and to the ambient preference
\* only when the key is absent; so a reload of a mounted page keeps its
\* theme under either ambient preference.
C6_ThemeInitPrecedence ==
    /\ [](phase = "rendered" => theme = ExpectedInitial(loadStored, loadAmbient))
    /\ [][(loads' = loads + 1)
            => /\ theme' = ExpectedInitial(stored, ambientDark)
               /\ (phase = "mounted") => theme' = theme]_vars

\* C6 witness: after a reload the stored light theme won over an ambient
\* dark preference.
C6_Witness ==
    /\ phase = "rendered"
    /\ loads > 0
    /\ loadStored = "light"
    /\ loadAmbient
    /\ theme = "light"

\* C7: every toggle flips the theme between light and dark and leaves the
\* stored key equal to the new theme and the root marker present exactly for
\* dark; so it is after any number of toggles.
C7_ThemeToggleFlips ==
    /\ []((toggles > 0) => /\ stored = theme
                           /\ rootDark = (theme = "dark"))
    /\ [][(toggles' = toggles + 1)
            => /\ {theme, theme'} = {"light", "dark"}
               /\ stored' = theme'
               /\ rootDark' = (theme' = "dark")]_vars

\* C7 witness: a toggle to light removed the marker and stored light.
C7_Witness ==
    /\ toggles > 0
    /\ theme = "light"
    /\ ~rootDark
    /\ stored = "light"

\* C8: once the mount effects have run the root carries the dark marker
\* whatever was stored or ambient, while the theme and the stored key hold
\* the initialised value; within a page load the marker goes away only when
\* the theme changes to light.
C8_ForcedDarkOnMount ==
    /\ []((phase = "mounted" /\ toggles = 0)
            => /\ rootDark
               /\ theme = ExpectedInitial(loadStored, loadAmbient)
               /\ stored = theme)
    /\ [][(rootDark /\ ~rootDark' /\ loads' = loads)
            => theme # "light" /\ theme' = "light"]_vars

\* C8 witness: a mounted page whose theme is light carries the dark marker.
C8_Witness ==
    /\ phase = "mounted"
    /\ toggles = 0
    /\ theme = "light"
    /\ stored = "light"
    /\ rootDark

\* C9: after any scroll samples the bar is hidden exactly when the most
\* recent sample is greater than the one before it (the position at mount
\* for the first) and greater than 64; it is never hidden at or below 64.
C9_HiddenIffDownPastThreshold ==
    (samples > 0)
        => /\ hidden <=> (scrollY > prevSample /\ scrollY > 64)
           /\ hidden => scrollY > 64

\* C9 witness: past the threshold, a decreasing sample revealed the bar.
C9_Witness ==
    /\ samples = 2
    /\ ~hidden
    /\ scrollY > 64
    /\ scrollY < prevSample

\* C10: through the submit control at most one request is outstanding, the
\* status is loading exactly while one is, and the outstanding request is
\* the latest submission.
C10_AtMostOneOutstanding ==
    /\ Cardinality(inflight) <= 1
    /\ (status = "loading") <=> (inflight # {})
    /\ \A r \in inflight : r.id = sent

\* C10 witness: a second request is outstanding while the form has been
\* edited away from what it carries.
C10_Witness ==
    /\ sent = 2
    /\ Cardinality(inflight) = 1
    /\ \E r \in inflight : r.body # form

====
